---- MODULE Spec2Model ----
(***************************************************************************)
(* A model of node-webpush: WebPush.generateRequest (src/src/webpush.ts)   *)
(* together with the two engines it calls, the RFC 8188 / RFC 8291 payload *)
(* encryption and the VAPID header generation.  generateRequest is         *)
(* translated from its source.  The modules ./crypto/webpush-encryption,  *)
(* ./vapid, ./constants and ./utils/base64url are not part of the source   *)
(* tree at hand; they are modelled from the design document (spec.md 4.3,  *)
(* 4.4), the README and the comments of the test suite.                    *)
(*                                                                         *)
(* Values.  A JavaScript string is a TLA+ string; an optional value is a   *)
(* record [t, v] whose tag t says "undefined", "null" or the type; a byte  *)
(* buffer is a sequence of numbers 0..255; an endpoint URL is the sequence *)
(* of its pieces (scheme, host, path segments) so that startsWith,         *)
(* includes and URL.origin are computed on it; a topic is the sequence of  *)
(* its characters.                                                         *)
(***************************************************************************)
EXTENDS Integers, Sequences, FiniteSets, TLC

VARIABLES config, pc, call, outcome, fetches, fetchPromise, promise, entropy, previous

vars == <<config, pc, call, outcome, fetches, fetchPromise, promise, entropy, previous>>

-----------------------------------------------------------------------------
(* Bounds of the model *)

\* longest byte payload enumerated
MaxLen == 3
\* largest finalRecordPadding enumerated
MaxPad == 2
\* record sizes enumerated are MIN_RS .. MIN_RS + RsSpan
RsSpan == 2

-----------------------------------------------------------------------------
(* Program constants *)

MIN_RS == 18
DEFAULT_RS == 4096
TAG_LEN == 16
MAX_TOPIC_LEN == 32
KEY_ID_LEN == 65
SALT_LEN == 16
NONCE_LEN == 12
DefaultExpirySeconds == 43200
MaxExpirySeconds == 86400
DEFAULT_TTL == "DEFAULT_TTL"

AES_128_GCM == "aes128gcm"
AES_GCM == "aesgcm"
SupportedContentEncoding == {AES_128_GCM, AES_GCM}
URGENCY_NORMAL == "normal"
SupportedUrgency == {"very-low", "low", "normal", "high"}

UNDEF == "<undefined>"
NULL == "<null>"

-----------------------------------------------------------------------------
(* Optional values *)

Undefined == [t |-> "undefined", v |-> 0]
Num(n) == [t |-> "int", v |-> n]
\* a finite number that is not an integer, between n and n + 1
Frac(n) == [t |-> "frac", v |-> n]
NaN == [t |-> "NaN", v |-> 0]
Infinity == [t |-> "Infinity", v |-> 0]
UndefinedBool == [t |-> "undefined", v |-> FALSE]
Bool(b) == [t |-> "bool", v |-> b]

\* x ?? d
OrDefault(x, d) == IF x.t = "undefined" THEN d ELSE x
\* s ?? d on strings
StrOrDefault(s, d) == IF s \in {UNDEF, NULL} THEN d ELSE s

NumberisFinite(x) == x.t \in {"int", "frac"}
NumberisInteger(x) == x.t = "int"
\* x < n for a number x and an integer n
LessThan(x, n) == x.t \in {"int", "frac"} /\ x.v < n
\* String(x) of a number
StringOf(x) ==
    CASE x.t = "int" -> ToString(x.v)
      [] x.t = "frac" -> ToString(x.v) \o ".5"
      [] OTHER -> x.t

-----------------------------------------------------------------------------
(* Bytes *)

RECURSIVE Sum(_)
Sum(s) == IF s = <<>> THEN 0 ELSE Head(s) + Sum(Tail(s))

RECURSIVE Concat(_)
Concat(ss) == IF ss = <<>> THEN <<>> ELSE Head(ss) \o Concat(Tail(ss))

\* the characters or pieces of a string, joined
RECURSIVE Join(_)
Join(ss) == IF ss = <<>> THEN "" ELSE Head(ss) \o Join(Tail(ss))

Zeros(n) == [i \in 1..n |-> 0]

RECURSIVE XorNat(_, _)
XorNat(a, b) ==
    IF a = 0 THEN b
    ELSE IF b = 0 THEN a
    ELSE (((a % 2) + (b % 2)) % 2) + 2 * XorNat(a \div 2, b \div 2)

XorBytes(x, y) == [i \in 1..Len(x) |-> XorNat(x[i], y[i])]

\* big-endian encoding of n in w bytes (writeUInt32BE; the 96-bit record counter)
RECURSIVE BigEndian(_, _)
BigEndian(n, w) ==
    IF w = 0 THEN <<>> ELSE BigEndian(n \div 256, w - 1) \o <<n % 256>>

\* readUInt32BE
RECURSIVE FromBigEndian(_)
FromBigEndian(s) ==
    IF s = <<>> THEN 0
    ELSE 256 * FromBigEndian(SubSeq(s, 1, Len(s) - 1)) + s[Len(s)]

\* Buffer.from(string, 'utf8') on a string given by its code points (< 2048)
RECURSIVE Utf8(_)
Utf8(cps) ==
    IF cps = <<>> THEN <<>>
    ELSE (IF Head(cps) < 128 THEN <<Head(cps)>>
          ELSE <<192 + (Head(cps) \div 64), 128 + (Head(cps) % 64)>>) \o Utf8(Tail(cps))

-----------------------------------------------------------------------------
(* The primitives of node:crypto, reduced to a toy group and a toy AEAD that *)
(* keep what the framing relies on: both sides of the key agreement derive   *)
(* the same secret, the ciphertext depends on key, nonce and position, and   *)
(* a record opens only under the key and nonce it was sealed with.          *)

GroupP == 251
GroupG == 6

RECURSIVE ModExp(_, _, _)
ModExp(b, e, m) == IF e = 0 THEN 1 ELSE (b * ModExp(b, e - 1, m)) % m

\* ECDH.getPublicKey / computeSecret
PublicOf(priv) == ModExp(GroupG, priv, GroupP)
computeSecret(priv, pub) == ModExp(pub, priv, GroupP)

\* the 65-byte uncompressed point of a public key, and its inverse
PointBytes(pub) == <<4>> \o [i \in 1..(KEY_ID_LEN - 1) |-> (pub + i - 1) % 256]
PointValue(bytes) == bytes[2]

\* crypto.randomBytes(16), from the seed the random source yields
SaltBytes(seed) == [i \in 1..SALT_LEN |-> (seed + 16 * i) % 256]

\* HKDF: extract with the salt, expand with a context that ends in the label
\* and both public keys; n output bytes
hkdf(salt, ikm, label, subPub, ephPub, n) ==
    LET mix == Sum(salt) + 7 * ikm + 3 * subPub + 5 * ephPub + label
    IN [i \in 1..n |-> (mix + 31 * i) % 256]

\* pseudo-random key: HMAC of the shared secret keyed with the auth secret
prkOf(secret, auth) == (secret * 13 + auth * 11 + 1) % 256

AeadStream(key, nonce, j) ==
    (key[((j - 1) % Len(key)) + 1] + nonce[((j - 1) % Len(nonce)) + 1] + j) % 256

AeadTag(key, nonce, pt) ==
    LET digest == Sum(pt) + 3 * Len(pt)
    IN [i \in 1..TAG_LEN |-> (key[i] + nonce[((i - 1) % Len(nonce)) + 1] + digest + i) % 256]

\* createCipheriv('aes-128-gcm', key, nonce): ciphertext followed by the tag
Seal(key, nonce, pt) ==
    [j \in 1..Len(pt) |-> (pt[j] + AeadStream(key, nonce, j)) % 256] \o AeadTag(key, nonce, pt)

\* createDecipheriv: the plaintext, or a failure when the tag does not verify
Open(key, nonce, rec) ==
    IF Len(rec) < TAG_LEN THEN [ok |-> FALSE, pt |-> <<>>]
    ELSE LET n == Len(rec) - TAG_LEN
             pt == [j \in 1..n |-> (rec[j] + 256 - AeadStream(key, nonce, j)) % 256]
         IN IF SubSeq(rec, n + 1, Len(rec)) = AeadTag(key, nonce, pt)
            THEN [ok |-> TRUE, pt |-> pt]
            ELSE [ok |-> FALSE, pt |-> <<>>]

-----------------------------------------------------------------------------
(* crypto/webpush-encryption: encryptAes128GcmBody (spec.md 4.3)            *)

PAYLOAD_TOO_LARGE == "Payload too large for a single RFC8188 record"
DELIM_MORE == 1
DELIM_LAST == 2
FIRST_SEQ == 0
LABEL_CEK == 1
LABEL_NONCE == 2
LABEL_LEGACY == 64

\* step 5: the data bytes one record holds at most, rs - 16 - 1
maxDataPerFullRecord(rs) == rs - TAG_LEN - 1

\* step 5: payload, delimiter and padding fit the plaintext of one record
fitsSingleRecord(len, pad, rs) == len + 1 + pad <= rs - TAG_LEN

\* step 5: the payload cut in order into chunks of at most n bytes; a payload
\* of no bytes is one empty chunk, so that a terminal record is always sent
RECURSIVE partition(_, _)
partition(payload, n) ==
    IF Len(payload) <= n THEN <<payload>>
    ELSE <<SubSeq(payload, 1, n)>> \o partition(SubSeq(payload, n + 1, Len(payload)), n)

\* a slip: every record is marked as the last
delimiterFor_AlwaysLast(isLast) == DELIM_LAST

\* step 6: the delimiter of a record
delimiterFor(isLast) == IF isLast THEN DELIM_LAST ELSE DELIM_MORE

\* step 6: the plaintext of a record
recordPlaintext(chunk, isLast, pad) ==
    chunk \o <<delimiterFor(isLast)>> \o (IF isLast THEN Zeros(pad) ELSE <<>>)

\* step 6: nonce = nonce base XOR big-endian-96(seq)
recordNonce(nonceBase, seq) == XorBytes(nonceBase, BigEndian(seq, NONCE_LEN))

\* a slip: the counter is not advanced
nextSeq_Stuck(seq) == seq

\* step 6: the counter of the record after the one numbered seq
nextSeq(seq) == seq + 1

\* step 6: the records of the chunks, the first numbered seq; each with the
\* counter, nonce and plaintext it was sealed from
RECURSIVE encryptRecords(_, _, _, _, _)
encryptRecords(chunks, seq, key, nonceBase, pad) ==
    IF chunks = <<>> THEN <<>>
    ELSE LET isLast == Len(chunks) = 1
             plain == recordPlaintext(Head(chunks), isLast, pad)
             nonce == recordNonce(nonceBase, seq)
         IN <<[seq |-> seq, nonce |-> nonce, plain |-> plain,
               bytes |-> Seal(key, nonce, plain)]>>
            \o encryptRecords(Tail(chunks), nextSeq(seq), key, nonceBase, pad)

RecordBytes(records) == Concat([i \in 1..Len(records) |-> records[i].bytes])

\* step 7: salt || rs || idlen || ephemeral public key
\* the k-th output of the secure random source: a salt seed and an ephemeral
\* private key that it has not yielded before
Draw(k) == [salt |-> k + 1, ephPriv |-> 2 * k + 3]

\* a salt and an ephemeral key the caller hands in, each of them optional
NotSupplied == [salt |-> Undefined, ephPriv |-> Undefined]
Supplied(salt, ephPriv) == [salt |-> salt, ephPriv |-> ephPriv]

\* whether the call has to ask the random source
needsDraw(supplied) == supplied.salt.t = "undefined" \/ supplied.ephPriv.t = "undefined"

\* a slip: what the caller supplied is ignored
randomnessOf_IgnoresSupplied(supplied, k) ==
    [salt |-> Draw(k).salt, ephPriv |-> Draw(k).ephPriv, drawn |-> TRUE]

\* the salt and the ephemeral key of one call, the random source having
\* been asked k times before: the supplied one, else the freshly drawn one
randomnessOf(supplied, k) ==
    [salt |-> OrDefault(supplied.salt, Num(Draw(k).salt)).v,
     ephPriv |-> OrDefault(supplied.ephPriv, Num(Draw(k).ephPriv)).v,
     drawn |-> needsDraw(supplied)]

bodyHeader(salt, rs, ephPub) ==
    salt \o BigEndian(rs, 4) \o <<KEY_ID_LEN>> \o PointBytes(ephPub)

\* steps 1-4: the content-encryption key and the nonce base
keySchedule(subPub, auth, salt, ephPriv, labelBase) ==
    LET ephPub == PublicOf(ephPriv)
        prk == prkOf(computeSecret(ephPriv, subPub), auth)
    IN [cek |-> hkdf(salt, prk, labelBase + LABEL_CEK, subPub, ephPub, TAG_LEN),
        nonceBase |-> hkdf(salt, prk, labelBase + LABEL_NONCE, subPub, ephPub, NONCE_LEN)]

encryptAes128GcmBody(p256dh, auth, payload, rs, allowMultipleRecords, finalRecordPadding, rnd) ==
    IF ~allowMultipleRecords /\ ~fitsSingleRecord(Len(payload), finalRecordPadding, rs)
    THEN [ok |-> FALSE, error |-> PAYLOAD_TOO_LARGE, body |-> <<>>, records |-> <<>>]
    ELSE LET salt == SaltBytes(rnd.salt)
             ks == keySchedule(p256dh, auth, salt, rnd.ephPriv, 0)
             records == encryptRecords(partition(payload, maxDataPerFullRecord(rs)),
                                       FIRST_SEQ, ks.cek, ks.nonceBase, finalRecordPadding)
         IN [ok |-> TRUE, error |-> "",
             body |-> bodyHeader(salt, rs, PublicOf(rnd.ephPriv)) \o RecordBytes(records),
             records |-> records]

\* base64url.toString of a buffer
Base64Url(bytes) == "b64(" \o ToString(bytes) \o ")"

\* encryptAesGcmLegacy: one sealed record, no header block
encryptAesGcmLegacy(p256dh, auth, payload, rnd) ==
    LET salt == SaltBytes(rnd.salt)
        ks == keySchedule(p256dh, auth, salt, rnd.ephPriv, LABEL_LEGACY)
    IN [ciphertext |-> Seal(ks.cek, ks.nonceBase, payload),
        saltB64Url |-> Base64Url(salt),
        localPublicKey |-> PointBytes(PublicOf(rnd.ephPriv))]

-----------------------------------------------------------------------------
(* vapid: GenerateHeaders (spec.md 4.4)                                      *)

INVALID_SUBJECT == "Vapid subject is not an https: or mailto: URL"
EXPIRY_TOO_LONG == "Vapid expiration must not exceed 24 hours"
SubjectSchemes == {"https:", "mailto:"}

\* step 1: the subject, given as <<scheme, rest>>
ValidateSubject(subject) == subject[1] \in SubjectSchemes

\* step 2: the expiry of a token issued at now
expiryOf(now, expirySeconds) == now + expirySeconds

\* a slip: the expiry is not checked against the maximum
expiryAllowed_Unchecked(now, exp) == TRUE

\* step 2: exp - now <= maxExpirySeconds
expiryAllowed(now, exp) == exp - now <= MaxExpirySeconds

\* steps 3-5: header.claims.signature
tokenOf(aud, exp, subject, privateKey) ==
    "ES256.JWT." \o aud \o "." \o ToString(exp) \o "." \o subject[1] \o subject[2]
    \o ".sig(" \o privateKey \o ")"

\* step 6: the Authorization value of an encoding
authorizationOf(contentEncoding, token, publicKey) ==
    IF contentEncoding = AES_GCM THEN "WebPush " \o token
    ELSE "vapid t=" \o token \o ", k=" \o publicKey

\* step 6: the Crypto-Key value of an encoding, NULL when there is none
cryptoKeyOf(contentEncoding, publicKey) ==
    IF contentEncoding = AES_GCM THEN "p256ecdsa=" \o publicKey ELSE NULL

NoVapidHeaders ==
    [Authorization |-> NULL, CryptoKey |-> NULL, token |-> "", aud |-> "", exp |-> 0,
     now |-> 0, expirySeconds |-> 0, contentEncoding |-> "", publicKey |-> ""]

GenerateHeaders(audience, subject, publicKey, privateKey, contentEncoding, expiration, now) ==
    LET expirySeconds == OrDefault(expiration, Num(DefaultExpirySeconds)).v
        exp == expiryOf(now, expirySeconds)
        token == tokenOf(audience, exp, subject, privateKey)
    IN IF ~ValidateSubject(subject)
       THEN [ok |-> FALSE, error |-> INVALID_SUBJECT, headers |-> NoVapidHeaders]
       ELSE IF ~expiryAllowed(now, exp)
       THEN [ok |-> FALSE, error |-> EXPIRY_TOO_LONG, headers |-> NoVapidHeaders]
       ELSE [ok |-> TRUE, error |-> "",
             headers |-> [Authorization |-> authorizationOf(contentEncoding, token, publicKey),
                          CryptoKey |-> cryptoKeyOf(contentEncoding, publicKey),
                          token |-> token, aud |-> audience, exp |-> exp, now |-> now,
                          expirySeconds |-> expirySeconds,
                          contentEncoding |-> contentEncoding, publicKey |-> publicKey]]

-----------------------------------------------------------------------------
(* src/src/webpush.ts                                                        *)

ERR_ENDPOINT == "You must pass a subscription with a valid endpoint URL."
ERR_TTL == "TTL must be a number >= 0."
ERR_ENCODING == "Unsupported content encoding"
ERR_URGENCY == "Unsupported urgency"
ERR_TOPIC_CHARS == "Topic contains invalid characters; must be URL-safe base64 chars."
ERR_TOPIC_LEN == "Topic must be <= 32 characters."
ERR_RS == "rs must be an integer >= 18."
ERR_KEYS == "To send a payload, the subscription must include 'keys.p256dh' and 'keys.auth'."

\* the characters of the URL-safe base64 alphabet that the model uses
Base64UrlChars == {"a", "b", "Z", "0", "9", "-", "_"}

\* base64url.validate
base64urlValidate(str) == \A i \in 1..Len(str) : str[i] \in Base64UrlChars

\* validateTopic: the error it throws, "" when it returns
validateTopic(topic) ==
    IF ~base64urlValidate(topic) THEN ERR_TOPIC_CHARS
    ELSE IF Len(topic) > MAX_TOPIC_LEN THEN ERR_TOPIC_LEN
    ELSE ""

StartsWith(e, prefix) ==
    Len(e) >= Len(prefix) /\ SubSeq(e, 1, Len(prefix)) = prefix

Includes(e, piece) == \E i \in 1..Len(e) : e[i] = piece

isGcmEndpoint(endpoint) ==
    StartsWith(endpoint, <<"https://", "android.googleapis.com", "/gcm/send">>)

isFcmEndpoint(endpoint) ==
    \/ StartsWith(endpoint, <<"https://", "fcm.googleapis.com", "/fcm/send">>)
    \/ Includes(endpoint, "fcm.googleapis.com")

\* new URL(endpoint).origin
getAudienceFromEndpoint(endpoint) == endpoint[1] \o endpoint[2]

\* the endpoint as the string the request carries
EndpointString(endpoint) ==
    Join(endpoint)

assertSupportedEncoding(e) == IF e \in SupportedContentEncoding THEN "" ELSE ERR_ENCODING

assertSupportedUrgency(u) == IF u \in SupportedUrgency THEN "" ELSE ERR_URGENCY

\* options?.TTL ?? DEFAULT_TTL
timeToLiveOf(options) == OrDefault(options.TTL, [t |-> "default", v |-> 0])

ttlHeader(ttl) == IF ttl.t = "default" THEN DEFAULT_TTL ELSE StringOf(ttl)

ttlValid(ttl) == ttl.t = "default" \/ (NumberisFinite(ttl) /\ ~LessThan(ttl, 0))

contentEncodingOf(options) == StrOrDefault(options.contentEncoding, AES_128_GCM)

urgencyOf(options) == StrOrDefault(options.urgency, URGENCY_NORMAL)

allowMultipleRecordsOf(options) == OrDefault(options.allowMultipleRecords, Bool(FALSE)).v

\* a slip: the default record size is the minimum
rsOf_DefaultsToMin(options) == OrDefault(options.rs, Num(MIN_RS))

rsOf(options) == OrDefault(options.rs, Num(DEFAULT_RS))

finalRecordPaddingOf(options) == OrDefault(options.finalRecordPadding, Num(0)).v

\* options?.gcmAPIKey ?? this.config.gcm?.apiKey ?? null
currentGcmKeyOf(cfg, options) == StrOrDefault(options.gcmAPIKey, StrOrDefault(cfg.gcm, NULL))

\* a key that is neither null nor the empty string
Truthy(str) == str \notin {NULL, UNDEF, ""}

\* options?.vapidDetails === undefined ? this.config.vapid : options.vapidDetails
vapidDetailsOf(cfg, options) ==
    IF options.vapidDetails.t = "undefined" THEN cfg.vapid ELSE options.vapidDetails

\* lines 73-91: the error of the first check that fails, "" when all pass
validationError(subscription, options) ==
    IF subscription.endpoint = <<>> THEN ERR_ENDPOINT
    ELSE IF ~ttlValid(timeToLiveOf(options)) THEN ERR_TTL
    ELSE IF assertSupportedEncoding(contentEncodingOf(options)) # ""
    THEN assertSupportedEncoding(contentEncodingOf(options))
    ELSE IF assertSupportedUrgency(urgencyOf(options)) # ""
    THEN assertSupportedUrgency(urgencyOf(options))
    ELSE IF options.topic # <<>> /\ validateTopic(options.topic) # ""
    THEN validateTopic(options.topic)
    ELSE IF ~NumberisInteger(rsOf(options)) \/ LessThan(rsOf(options), MIN_RS) THEN ERR_RS
    ELSE ""

\* a slip: an assignment does not replace a key the object already holds
Set_KeepsExisting(headers, name, value) == headers @@ (name :> value)

\* headers[name] = value
Set(headers, name, value) == (name :> value) @@ headers

\* lines 100-106
initialHeaders(options) ==
    LET h == options.headers
             @@ ("TTL" :> ttlHeader(timeToLiveOf(options)))
             @@ ("Urgency" :> urgencyOf(options))
    IN IF options.topic # <<>> THEN Set(h, "Topic", Join(options.topic)) ELSE h

\* payload != null && payload !== ''
hasPayloadOf(payload) ==
    /\ payload.t \notin {"null", "undefined"}
    /\ ~(payload.t = "string" /\ payload.data = <<>>)

\* lines 116-119
payloadBufOf(payload) == IF payload.t = "string" THEN Utf8(payload.data) ELSE payload.data

NoLog == [encrypt |-> 0, sign |-> 0, records |-> <<>>, vapid |-> NoVapidHeaders]

Threw(error, log) ==
    [status |-> "threw", error |-> error, endpoint |-> "", method |-> "",
     headers |-> <<>>, hasBody |-> FALSE, body |-> <<>>, log |-> log]

Returned(endpoint, headers, hasBody, body, log) ==
    [status |-> "returned", error |-> "", endpoint |-> endpoint, method |-> "POST",
     headers |-> headers, hasBody |-> hasBody, body |-> body, log |-> log]

\* a slip: finalRecordPadding is not handed on
callEncryptAes128Gcm_DropsPadding(subscription, payloadBuf, options, rnd) ==
    encryptAes128GcmBody(subscription.keys.p256dh, subscription.keys.auth, payloadBuf,
                         OrDefault(options.rs, Num(DEFAULT_RS)).v,
                         OrDefault(options.allowMultipleRecords, Bool(FALSE)).v, 0, rnd)

\* lines 123-131: the call of encryptAes128GcmBody
callEncryptAes128Gcm(subscription, payloadBuf, options, rnd) ==
    encryptAes128GcmBody(subscription.keys.p256dh, subscription.keys.auth, payloadBuf,
                         rsOf(options).v, allowMultipleRecordsOf(options),
                         finalRecordPaddingOf(options), rnd)

\* lines 108-151: the body and the headers that describe it
encryptStage(subscription, payload, options, rnd) ==
    LET headers == initialHeaders(options)
    IN IF ~hasPayloadOf(payload)
       THEN [ok |-> TRUE, error |-> "", hasBody |-> FALSE, body |-> <<>>,
             headers |-> Set(headers, "Content-Length", "0"), log |-> NoLog]
       ELSE IF ~subscription.keys.present
       THEN [ok |-> FALSE, error |-> ERR_KEYS, hasBody |-> FALSE, body |-> <<>>,
             headers |-> headers, log |-> NoLog]
       ELSE LET payloadBuf == payloadBufOf(payload)
                h1 == Set(headers, "Content-Type", "application/octet-stream")
            IN IF contentEncodingOf(options) = AES_128_GCM
               THEN LET enc == callEncryptAes128Gcm(subscription, payloadBuf, options, rnd)
                        log == [NoLog EXCEPT !.encrypt = 1, !.records = enc.records]
                    IN IF ~enc.ok
                       THEN [ok |-> FALSE, error |-> enc.error, hasBody |-> FALSE,
                             body |-> <<>>, headers |-> h1, log |-> log]
                       ELSE [ok |-> TRUE, error |-> "", hasBody |-> TRUE, body |-> enc.body,
                             headers |-> Set(Set(h1, "Content-Encoding", AES_128_GCM),
                                             "Content-Length", ToString(Len(enc.body))),
                             log |-> log]
               ELSE LET enc == encryptAesGcmLegacy(subscription.keys.p256dh,
                                                   subscription.keys.auth, payloadBuf, rnd)
                    IN [ok |-> TRUE, error |-> "", hasBody |-> TRUE, body |-> enc.ciphertext,
                        headers |->
                            Set(Set(Set(Set(h1, "Content-Encoding", AES_GCM),
                                        "Content-Length", ToString(Len(enc.ciphertext))),
                                    "Encryption", "salt=" \o enc.saltB64Url),
                                "Crypto-Key", "dh=" \o Base64Url(enc.localPublicKey)),
                        log |-> [NoLog EXCEPT !.encrypt = 1]]

\* a slip: contentEncoding is not handed on, and GenerateHeaders takes aes128gcm
callGenerateHeaders_IgnoresEncoding(endpoint, vapidDetails, contentEncoding, now) ==
    GenerateHeaders(endpoint[1] \o endpoint[2], vapidDetails.subject,
                    vapidDetails.publicKey, vapidDetails.privateKey, AES_128_GCM,
                    Undefined, now)

\* lines 162-169: the call of GenerateHeaders
callGenerateHeaders(endpoint, vapidDetails, contentEncoding, now) ==
    GenerateHeaders(getAudienceFromEndpoint(endpoint), vapidDetails.subject,
                    vapidDetails.publicKey, vapidDetails.privateKey, contentEncoding,
                    Undefined, now)

\* lines 171-177: the VAPID headers merged into the request's
mergeVapidHeaders(headers, vapidHeaders, contentEncoding) ==
    LET h1 == IF Truthy(vapidHeaders.Authorization)
              THEN Set(headers, "Authorization", vapidHeaders.Authorization)
              ELSE headers
    IN IF Truthy(vapidHeaders.CryptoKey) /\ contentEncoding = AES_GCM
       THEN Set(h1, "Crypto-Key",
                IF "Crypto-Key" \in DOMAIN h1 /\ h1["Crypto-Key"] # ""
                THEN h1["Crypto-Key"] \o "; " \o vapidHeaders.CryptoKey
                ELSE vapidHeaders.CryptoKey)
       ELSE h1

\* a slip: the VAPID details are looked at before the GCM endpoint
authMethodOf_VapidFirst(endpoint, currentGcmKey, vapidDetails) ==
    IF vapidDetails.t = "obj" THEN "vapid"
    ELSE IF (isGcmEndpoint(endpoint) \/ isFcmEndpoint(endpoint)) /\ Truthy(currentGcmKey)
    THEN "key"
    ELSE "none"

\* lines 153-180: which authentication the endpoint, the key and the VAPID
\* details select
authMethodOf(endpoint, currentGcmKey, vapidDetails) ==
    IF isGcmEndpoint(endpoint)
    THEN (IF Truthy(currentGcmKey) THEN "key" ELSE "none")
    ELSE IF vapidDetails.t = "obj" THEN "vapid"
    ELSE IF isFcmEndpoint(endpoint) /\ Truthy(currentGcmKey) THEN "key"
    ELSE "none"

\* lines 153-188
authStage(cfg, subscription, options, enc, now) ==
    LET endpoint == subscription.endpoint
        currentGcmKey == currentGcmKeyOf(cfg, options)
        vapidDetails == vapidDetailsOf(cfg, options)
        method == authMethodOf(endpoint, currentGcmKey, vapidDetails)
    IN IF method = "key"
       THEN Returned(EndpointString(endpoint),
                     Set(enc.headers, "Authorization", "key=" \o currentGcmKey),
                     enc.hasBody, enc.body, enc.log)
       ELSE IF method = "vapid"
       THEN LET v == callGenerateHeaders(endpoint, vapidDetails, contentEncodingOf(options), now)
                log == [enc.log EXCEPT !.sign = 1, !.vapid = v.headers]
            IN IF ~v.ok THEN Threw(v.error, log)
               ELSE Returned(EndpointString(endpoint),
                             mergeVapidHeaders(enc.headers, v.headers, contentEncodingOf(options)),
                             enc.hasBody, enc.body, log)
       ELSE Returned(EndpointString(endpoint), enc.headers, enc.hasBody, enc.body, enc.log)

\* a slip: the TTL is checked only after the body is encrypted
generateRequest_LateTtlCheck(cfg, subscription, payload, options, env) ==
    LET lenient == [options EXCEPT !.TTL = Undefined]
    IN IF validationError(subscription, lenient) # ""
       THEN Threw(validationError(subscription, lenient), NoLog)
       ELSE LET enc == encryptStage(subscription, payload, options, env.rnd)
            IN IF ~enc.ok THEN Threw(enc.error, enc.log)
               ELSE IF ~ttlValid(timeToLiveOf(options)) THEN Threw(ERR_TTL, enc.log)
               ELSE authStage(cfg, subscription, options, enc, env.now)

\* WebPush.generateRequest
generateRequest(cfg, subscription, payload, options, env) ==
    IF validationError(subscription, options) # ""
    THEN Threw(validationError(subscription, options), NoLog)
    ELSE LET enc == encryptStage(subscription, payload, options, env.rnd)
         IN IF ~enc.ok THEN Threw(enc.error, enc.log)
            ELSE authStage(cfg, subscription, options, enc, env.now)

\* Response.ok: the status is in 200..299
ok(res) == res.status >= 200 /\ res.status <= 299

NoResponse == [status |-> 0]
NoError == [name |-> "", message |-> "", response |-> NoResponse]

\* lines 20-24: new WebPushError(message, response)
WebPushError(message, response) ==
    [name |-> "WebPushError", message |-> message, response |-> response]

\* an Error that carries no response
PlainError(name, message) == [name |-> name, message |-> message, response |-> NoResponse]

\* a promise: the one notify returns, and the one fetch returns
NoPromise == [state |-> "none", value |-> NoResponse, error |-> NoError]
Pending == [state |-> "pending", value |-> NoResponse, error |-> NoError]
Fulfilled(res) == [state |-> "fulfilled", value |-> res, error |-> NoError]
Rejected(error) == [state |-> "rejected", value |-> NoResponse, error |-> error]

\* the arguments of fetch(endpoint, init)
FetchArgs(r) ==
    [endpoint |-> r.endpoint, method |-> r.method, headers |-> r.headers,
     hasBody |-> r.hasBody, body |-> r.body]

\* a slip: the response is returned without a look at res.ok
notifyResume_NoOkCheck(res) == Fulfilled(res)

\* lines 204-205: notify after the await, with the response fetch resolved to
notifyResume(res) ==
    IF ~ok(res) THEN Rejected(WebPushError("Received unexpected response code", res))
    ELSE Fulfilled(res)

-----------------------------------------------------------------------------
(* The calls enumerated *)

UndefinedDetails == [t |-> "undefined", subject |-> <<"", "">>, publicKey |-> "", privateKey |-> ""]
NullDetails == [t |-> "null", subject |-> <<"", "">>, publicKey |-> "", privateKey |-> ""]
ConfigVapid ==
    [t |-> "obj", subject |-> <<"mailto:", "admin@example.com">>,
     publicKey |-> "PUB-config", privateKey |-> "PRIV-config"]
CallVapid ==
    [t |-> "obj", subject |-> <<"https:", "//ops.example.com">>,
     publicKey |-> "PUB-call", privateKey |-> "PRIV-call"]

GcmEndpoint == <<"https://", "android.googleapis.com", "/gcm/send", "/abc">>
FcmEndpoint == <<"https://", "fcm.googleapis.com", "/fcm/send", "/abc">>
FcmWpEndpoint == <<"https://", "fcm.googleapis.com", "/wp", "/abc">>
PushEndpoint == <<"https://", "example.com", "/push">>

\* the subscriber's key pair and auth secret
Subscriber == [priv |-> 7, auth |-> 99]

KeysPresent == [present |-> TRUE, p256dh |-> PublicOf(Subscriber.priv), auth |-> Subscriber.auth]
KeysAbsent == [present |-> FALSE, p256dh |-> 0, auth |-> 0]

NoHeaders == [n \in {} |-> ""]
CallerHeaders == ("Authorization" :> "Bearer caller") @@ ("Content-Length" :> "999")
\* a caller that describes a body of its own
CallerContentHeaders ==
    ("Content-Length" :> "7") @@ ("Content-Type" :> "text/plain")
    @@ ("Content-Encoding" :> "identity")

DefaultOptions ==
    [TTL |-> Undefined, contentEncoding |-> UNDEF, urgency |-> UNDEF, topic |-> <<>>,
     allowMultipleRecords |-> UndefinedBool, rs |-> Undefined,
     finalRecordPadding |-> Undefined, headers |-> NoHeaders, gcmAPIKey |-> UNDEF,
     vapidDetails |-> UndefinedDetails]

Rnds == {[salt |-> 1, ephPriv |-> 3], [salt |-> 2, ephPriv |-> 5]}
Nows == {0, 1000}
DefaultEnv == [rnd |-> [salt |-> 1, ephPriv |-> 3], now |-> 0]

ByteAlphabet == {0, 2, 65}

RECURSIVE SeqsUpTo(_, _)
SeqsUpTo(S, n) ==
    IF n = 0 THEN {<<>>}
    ELSE LET shorter == SeqsUpTo(S, n - 1)
         IN shorter \cup {Append(q, x) : q \in {r \in shorter : Len(r) = n - 1}, x \in S}

NullPayload == [t |-> "null", data |-> <<>>]
UndefinedPayload == [t |-> "undefined", data |-> <<>>]
StringPayload(cps) == [t |-> "string", data |-> cps]
BytesPayload(bytes) == [t |-> "bytes", data |-> bytes]

\* "hello", and "h" followed by e-acute
Hello == <<104, 101, 108, 108, 111>>
HAcute == <<104, 233>>

FramingPayloads ==
    {BytesPayload(b) : b \in SeqsUpTo(ByteAlphabet, MaxLen)}
    \cup {StringPayload(Hello), StringPayload(HAcute)}

Rep(c, n) == [i \in 1..n |-> c]

Topics == {<<>>, <<"a", "_", "9">>, <<"a", "!">>, Rep("a", MAX_TOPIC_LEN), Rep("a", MAX_TOPIC_LEN + 1)}

NoVapidArgs ==
    [audience |-> "", subject |-> <<"", "">>, contentEncoding |-> "", expiration |-> Undefined]

GenerateRequestCall(subscription, payload, options, env) ==
    [op |-> "generateRequest", subscription |-> subscription, payload |-> payload,
     options |-> options, env |-> env, vapid |-> NoVapidArgs, supplied |-> NotSupplied]

\* calls that vary the payload and the record framing options
FramingCalls ==
    {GenerateRequestCall([endpoint |-> PushEndpoint, keys |-> KeysPresent], p,
        [DefaultOptions EXCEPT !.rs = rs, !.allowMultipleRecords = am,
                               !.finalRecordPadding = Num(pad)],
        [rnd |-> rnd, now |-> 0]) :
     p \in FramingPayloads,
     rs \in {Undefined} \cup {Num(r) : r \in MIN_RS..(MIN_RS + RsSpan)},
     am \in {Bool(TRUE), Bool(FALSE)},
     pad \in 0..MaxPad,
     rnd \in Rnds}

\* calls that vary what selects the authentication
AuthCalls ==
    {GenerateRequestCall([endpoint |-> e, keys |-> KeysPresent], p,
        [DefaultOptions EXCEPT !.gcmAPIKey = k, !.vapidDetails = v,
                               !.contentEncoding = ce, !.headers = h],
        [rnd |-> [salt |-> 1, ephPriv |-> 3], now |-> now]) :
     e \in {GcmEndpoint, FcmEndpoint, FcmWpEndpoint, PushEndpoint},
     p \in {NullPayload, StringPayload(<<104, 105>>)},
     k \in {UNDEF, NULL, "", "call-key"},
     v \in {UndefinedDetails, NullDetails, CallVapid},
     ce \in {UNDEF, AES_128_GCM, AES_GCM},
     h \in {NoHeaders, CallerHeaders},
     now \in Nows}

\* calls that vary what generateRequest validates; the payload is present, so
\* that a call that passes the checks goes on to encrypt
ValidationCalls ==
    {GenerateRequestCall([endpoint |-> e, keys |-> KeysPresent], BytesPayload(<<65>>),
        [DefaultOptions EXCEPT !.TTL = ttl, !.contentEncoding = ce, !.urgency = u,
                               !.topic = topic, !.rs = rs],
        DefaultEnv) :
     e \in {<<>>, PushEndpoint},
     ttl \in {Undefined, Num(0), Num(60), Num(-1), NaN, Infinity},
     ce \in {UNDEF, AES_GCM, "br"},
     u \in {UNDEF, "high", "urgent"},
     topic \in Topics,
     rs \in {Undefined, Num(MIN_RS - 1), Num(MIN_RS), Frac(MIN_RS)}}

\* calls that vary the kind of payload and the subscription's keys
PayloadCalls ==
    {GenerateRequestCall([endpoint |-> PushEndpoint, keys |-> keys], p,
        [DefaultOptions EXCEPT !.contentEncoding = ce, !.headers = h], DefaultEnv) :
     keys \in {KeysPresent, KeysAbsent},
     p \in {NullPayload, UndefinedPayload, StringPayload(<<>>), BytesPayload(<<>>),
            StringPayload(HAcute), BytesPayload(<<65>>)},
     ce \in {UNDEF, AES_GCM},
     h \in {NoHeaders, CallerHeaders, CallerContentHeaders}}

GenerateRequestCalls == FramingCalls \cup AuthCalls \cup ValidationCalls \cup PayloadCalls

\* calls of notify: requests with and without a body, and calls whose
\* generateRequest throws (no endpoint, a payload without keys, a payload too
\* large for the record, a negative TTL)
NotifyCalls ==
    {[op |-> "notify", subscription |-> [endpoint |-> e, keys |-> keys], payload |-> p,
      options |-> [DefaultOptions EXCEPT !.rs = rs, !.TTL = ttl], env |-> DefaultEnv,
      vapid |-> NoVapidArgs, supplied |-> NotSupplied] :
     e \in {<<>>, PushEndpoint, GcmEndpoint},
     keys \in {KeysPresent, KeysAbsent},
     p \in {NullPayload, StringPayload(Hello), BytesPayload(<<65>>)},
     rs \in {Undefined, Num(MIN_RS)},
     ttl \in {Undefined, Num(-1)}}

\* the statuses a push service answers with
Statuses == {200, 201, 204, 299, 300, 400, 404, 410, 413, 429, 500}
Responses == {[status |-> n] : n \in Statuses}

\* direct calls of VAPID.GenerateHeaders
GenerateHeadersCalls ==
    {[op |-> "GenerateHeaders",
      subscription |-> [endpoint |-> <<>>, keys |-> KeysAbsent], payload |-> NullPayload,
      options |-> DefaultOptions, env |-> [rnd |-> [salt |-> 1, ephPriv |-> 3], now |-> now],
      vapid |-> [audience |-> "https://example.com", subject |-> subject,
                 contentEncoding |-> ce, expiration |-> x],
      supplied |-> NotSupplied] :
     subject \in {<<"mailto:", "test@example.com">>, <<"https:", "//example.com/contact">>,
                  <<"http:", "//example.com">>},
     ce \in SupportedContentEncoding,
     x \in {Undefined, Num(1), Num(MaxExpirySeconds), Num(MaxExpirySeconds + 1)},
     now \in Nows}

NoCall ==
    [op |-> "", subscription |-> [endpoint |-> <<>>, keys |-> KeysAbsent],
     payload |-> NullPayload, options |-> DefaultOptions, env |-> DefaultEnv,
     vapid |-> NoVapidArgs, supplied |-> NotSupplied]

NoOutcome ==
    [status |-> "", error |-> "", endpoint |-> "", method |-> "", headers |-> <<>>,
     hasBody |-> FALSE, body |-> <<>>, log |-> NoLog]

\* the number of times the random source is asked in one behaviour
MaxDraws == 3

EncryptionOps == {"encryptAes128GcmBody", "encryptAesGcmLegacy"}

\* direct calls of the two encryption functions, with a salt and an
\* ephemeral key handed in or left to the random source
EncryptCalls ==
    {[op |-> op, subscription |-> [endpoint |-> <<>>, keys |-> KeysPresent],
      payload |-> BytesPayload(p),
      options |-> [DefaultOptions EXCEPT !.rs = Num(rs), !.allowMultipleRecords = Bool(am)],
      env |-> DefaultEnv, vapid |-> NoVapidArgs, supplied |-> Supplied(salt, ephPriv)] :
     op \in EncryptionOps,
     p \in {<<65>>, <<65, 66>>},
     rs \in {MIN_RS},
     am \in BOOLEAN,
     salt \in {Undefined, Num(1), Num(9)},
     ephPriv \in {Undefined, Num(11)}}

\* no call before this one
NoPrevious == [call |-> NoCall, outcome |-> NoOutcome]

-----------------------------------------------------------------------------
(* The state machine *)

\* new WebPush(config): lines 52-60 accept a valid VAPID configuration and a
\* GCM/FCM key that is null or a non-empty string
Configs == {[vapid |-> ConfigVapid, gcm |-> k] : k \in {NULL, "config-key"}}

Init ==
    /\ config \in Configs
    /\ pc = "idle"
    /\ call = NoCall
    /\ outcome = NoOutcome
    /\ fetches = <<>>
    /\ fetchPromise = NoPromise
    /\ promise = NoPromise
    /\ entropy = 0
    /\ previous = NoPrevious

\* a caller invokes webpush.generateRequest(subscription, payload, options)
GenerateRequest(c) ==
    /\ pc = "idle"
    /\ LET r == generateRequest(config, c.subscription, c.payload, c.options, c.env)
       IN /\ outcome' = r
          /\ pc' = r.status
    /\ call' = c
    /\ UNCHANGED <<config, fetches, fetchPromise, promise, entropy, previous>>

\* a caller invokes VAPID.GenerateHeaders directly
VapidGenerateHeaders(c) ==
    /\ pc = "idle"
    /\ LET v == GenerateHeaders(c.vapid.audience, c.vapid.subject, "PUB-direct",
                                "PRIV-direct", c.vapid.contentEncoding,
                                c.vapid.expiration, c.env.now)
           log == [NoLog EXCEPT !.sign = 1, !.vapid = v.headers]
       IN /\ outcome' = IF v.ok THEN [NoOutcome EXCEPT !.status = "returned", !.log = log]
                        ELSE Threw(v.error, log)
          /\ pc' = IF v.ok THEN "returned" ELSE "threw"
    /\ call' = c
    /\ UNCHANGED <<config, fetches, fetchPromise, promise, entropy, previous>>

\* a caller invokes webpush.notify(subscription, payload, options): lines
\* 202-203 up to the await.  A throw of generateRequest rejects the promise;
\* otherwise fetch is called with the request and notify is suspended.
Notify(c) ==
    /\ pc = "idle"
    /\ LET r == generateRequest(config, c.subscription, c.payload, c.options, c.env)
       IN /\ outcome' = r
          /\ IF r.status = "threw"
             THEN /\ pc' = "rejected"
                  /\ promise' = Rejected(PlainError("Error", r.error))
                  /\ UNCHANGED <<fetches, fetchPromise>>
             ELSE /\ pc' = "awaiting"
                  /\ promise' = Pending
                  /\ fetches' = Append(fetches, FetchArgs(r))
                  /\ fetchPromise' = Pending
    /\ call' = c
    /\ UNCHANGED <<config, entropy, previous>>

\* the fetch resolves with a response and notify resumes: lines 203-205
FetchResolves(res) ==
    /\ pc = "awaiting"
    /\ fetchPromise' = Fulfilled(res)
    /\ promise' = notifyResume(res)
    /\ pc' = promise'.state
    /\ UNCHANGED <<config, call, outcome, fetches, entropy, previous>>

\* the fetch rejects (no connection, a malformed URL): the await at line 203
\* throws and the error leaves notify as it is
FetchRejects ==
    /\ pc = "awaiting"
    /\ fetchPromise' = Rejected(PlainError("TypeError", "fetch failed"))
    /\ promise' = fetchPromise'
    /\ pc' = "rejected"
    /\ UNCHANGED <<config, call, outcome, fetches, entropy, previous>>

\* the caller has taken the result or caught the error; the instance is
\* ready for the next call
Continue ==
    /\ pc \in {"returned", "threw", "fulfilled", "rejected"}
    /\ pc' = "idle"
    /\ call' = NoCall
    /\ outcome' = NoOutcome
    /\ fetches' = <<>>
    /\ fetchPromise' = NoPromise
    /\ promise' = NoPromise
    /\ previous' = IF call.op \in EncryptionOps
                   THEN [call |-> call, outcome |-> outcome]
                   ELSE previous
    /\ UNCHANGED <<config, entropy>>

Next ==
    \/ \E c \in GenerateRequestCalls : GenerateRequest(c)
    \/ \E c \in GenerateHeadersCalls : VapidGenerateHeaders(c)
    \/ \E c \in NotifyCalls : Notify(c)
    \/ \E res \in Responses : FetchResolves(res)
    \/ FetchRejects
    \/ Continue

Spec == Init /\ [][Next]_vars

\* one of the encryption functions is called on its own: the salt and the
\* ephemeral key are the supplied ones, and what is not supplied is drawn
\* from the random source, which moves on
Encrypt(c) ==
    /\ pc = "idle"
    /\ entropy < MaxDraws
    /\ LET rnd == randomnessOf(c.supplied, entropy)
           keys == c.subscription.keys
           payloadBuf == payloadBufOf(c.payload)
       IN IF c.op = "encryptAes128GcmBody"
          THEN LET enc == encryptAes128GcmBody(keys.p256dh, keys.auth, payloadBuf,
                                               rsOf(c.options).v,
                                               allowMultipleRecordsOf(c.options),
                                               finalRecordPaddingOf(c.options), rnd)
                   log == [NoLog EXCEPT !.encrypt = 1, !.records = enc.records]
               IN /\ outcome' = IF enc.ok
                                 THEN [NoOutcome EXCEPT !.status = "returned",
                                                        !.hasBody = TRUE,
                                                        !.body = enc.body, !.log = log]
                                 ELSE Threw(enc.error, log)
                  /\ pc' = IF enc.ok THEN "returned" ELSE "threw"
                  /\ entropy' = IF rnd.drawn THEN entropy + 1 ELSE entropy
          ELSE LET enc == encryptAesGcmLegacy(keys.p256dh, keys.auth, payloadBuf, rnd)
               IN /\ outcome' = [NoOutcome EXCEPT
                                    !.status = "returned", !.hasBody = TRUE,
                                    !.body = enc.ciphertext,
                                    !.headers = ("salt" :> enc.saltB64Url)
                                                @@ ("localPublicKey" :>
                                                        Base64Url(enc.localPublicKey)),
                                    !.log = [NoLog EXCEPT !.encrypt = 1]]
                  /\ pc' = "returned"
                  /\ entropy' = IF rnd.drawn THEN entropy + 1 ELSE entropy
    /\ call' = c
    /\ UNCHANGED <<config, fetches, fetchPromise, promise, previous>>

NextEncrypt ==
    \/ \E c \in EncryptCalls : Encrypt(c)
    \/ Continue

\* the encryption functions called one call after the other
SpecEncrypt == Init /\ [][NextEncrypt]_vars

-----------------------------------------------------------------------------
(* What the properties below read off a call and its outcome.  The values   *)
(* are taken from the arguments of the call, not from the operators that    *)
(* model generateRequest.                                                   *)

IsGenerateRequest == pc # "idle" /\ call.op = "generateRequest"

ArgRs == IF call.options.rs.t = "undefined" THEN DEFAULT_RS ELSE call.options.rs.v
ArgPad ==
    IF call.options.finalRecordPadding.t = "undefined" THEN 0
    ELSE call.options.finalRecordPadding.v
ArgAllowMultiple ==
    call.options.allowMultipleRecords.t = "bool" /\ call.options.allowMultipleRecords.v
ArgEncoding ==
    IF call.options.contentEncoding \in {UNDEF, NULL} THEN "aes128gcm"
    ELSE call.options.contentEncoding
ArgPayloadBytes ==
    IF call.payload.t = "string" THEN Utf8(call.payload.data) ELSE call.payload.data
ArgHasPayload ==
    call.payload.t \in {"string", "bytes"}
    /\ ~(call.payload.t = "string" /\ call.payload.data = <<>>)

ArgTopicBad ==
    /\ call.options.topic # <<>>
    /\ \/ Len(call.options.topic) > 32
       \/ \E i \in 1..Len(call.options.topic) : call.options.topic[i] \notin Base64UrlChars
ArgTtlBad ==
    \/ call.options.TTL.t \in {"NaN", "Infinity"}
    \/ call.options.TTL.t \in {"int", "frac"} /\ call.options.TTL.v < 0
ArgRsBad ==
    call.options.rs.t # "undefined"
    /\ (call.options.rs.t # "int" \/ call.options.rs.v < 18)

\* one of the defects generateRequest validates
ArgInvalid ==
    \/ call.subscription.endpoint = <<>>
    \/ ArgTtlBad
    \/ ArgEncoding \notin {"aes128gcm", "aesgcm"}
    \/ call.options.urgency \notin {UNDEF, NULL, "very-low", "low", "normal", "high"}
    \/ ArgTopicBad
    \/ ArgRsBad

\* a call that reaches the aes128gcm encryption of a payload
ModernCall ==
    /\ IsGenerateRequest
    /\ ~ArgInvalid
    /\ ArgHasPayload
    /\ call.subscription.keys.present
    /\ ArgEncoding = "aes128gcm"

\* a call that returned a request with an aes128gcm body
ModernBody == ModernCall /\ outcome.status = "returned"

(* The receiving side: the subscriber reads the header and derives the key  *)
(* and the nonce base from its own private key and auth secret.             *)

BodySalt == SubSeq(outcome.body, 1, 16)
BodyRs == FromBigEndian(SubSeq(outcome.body, 17, 20))
BodyIdLen == outcome.body[21]
BodyKeyId == SubSeq(outcome.body, 22, 21 + BodyIdLen)
BodyRecordStream == SubSeq(outcome.body, 22 + BodyIdLen, Len(outcome.body))

ReceiverKeys ==
    LET ephPub == PointValue(BodyKeyId)
        subPub == PublicOf(Subscriber.priv)
        prk == prkOf(computeSecret(Subscriber.priv, ephPub), Subscriber.auth)
    IN [cek |-> hkdf(BodySalt, prk, LABEL_CEK, subPub, ephPub, 16),
        nonceBase |-> hkdf(BodySalt, prk, LABEL_NONCE, subPub, ephPub, 12)]

ReceiverNonce(nonceBase, i) == XorBytes(nonceBase, BigEndian(i, 12))

\* the number of records a stream of n bytes holds when cut every rs bytes
RecordCount(n, rs) == (n + rs - 1) \div rs

RECURSIVE StripZeros(_)
StripZeros(s) ==
    IF s # <<>> /\ s[Len(s)] = 0 THEN StripZeros(SubSeq(s, 1, Len(s) - 1)) ELSE s

\* RFC 8188 decoding of a record stream cut every rs bytes, the first record
\* numbered i: the data, or a failure
RECURSIVE DecodeStream(_, _, _, _)
DecodeStream(stream, rs, i, keys) ==
    LET isLast == Len(stream) <= rs
        rec == IF isLast THEN stream ELSE SubSeq(stream, 1, rs)
        opened == Open(keys.cek, ReceiverNonce(keys.nonceBase, i), rec)
        unpadded == StripZeros(opened.pt)
    IN IF ~opened.ok \/ unpadded = <<>> THEN [ok |-> FALSE, data |-> <<>>]
       ELSE IF unpadded[Len(unpadded)] # (IF isLast THEN 2 ELSE 1)
       THEN [ok |-> FALSE, data |-> <<>>]
       ELSE IF isLast THEN [ok |-> TRUE, data |-> SubSeq(unpadded, 1, Len(unpadded) - 1)]
       ELSE LET rest == DecodeStream(SubSeq(stream, rs + 1, Len(stream)), rs, i + 1, keys)
            IN [ok |-> rest.ok,
                data |-> IF rest.ok THEN SubSeq(unpadded, 1, Len(unpadded) - 1) \o rest.data
                         ELSE <<>>]

Decoded == DecodeStream(BodyRecordStream, BodyRs, 0, ReceiverKeys)

\* the i-th record as the sender emitted it, opened by the receiver
EmittedLen(i) == Len(outcome.log.records[i].bytes)
EmittedStart(i) == Sum([j \in 1..(i - 1) |-> EmittedLen(j)])
EmittedRecord(i) == SubSeq(BodyRecordStream, EmittedStart(i) + 1, EmittedStart(i) + EmittedLen(i))
OpenedRecord(i) == Open(ReceiverKeys.cek, ReceiverNonce(ReceiverKeys.nonceBase, i - 1), EmittedRecord(i))
NumRecords == Len(outcome.log.records)

-----------------------------------------------------------------------------
(* C1: with allowMultipleRecords false, an aes128gcm call whose payload     *)
(* length + 1 + finalRecordPadding exceeds rs - 16 throws the payload-too-  *)
(* large error and returns no request; any other such call returns a        *)
(* request whose body carries exactly one record.                           *)
C1_SingleRecordBoundary ==
    (ModernCall /\ ~ArgAllowMultiple) =>
        IF Len(ArgPayloadBytes) + 1 + ArgPad > ArgRs - 16
        THEN /\ outcome.status = "threw"
             /\ outcome.error = PAYLOAD_TOO_LARGE
             /\ outcome.endpoint = "" /\ ~outcome.hasBody /\ outcome.body = <<>>
        ELSE /\ outcome.status = "returned"
             /\ outcome.hasBody
             /\ NumRecords = 1
             /\ RecordCount(Len(BodyRecordStream), BodyRs) = 1
             /\ Len(BodyRecordStream) = EmittedLen(1)

\* rs = 18 and a 2-byte payload: the call threw
C1_Witness ==
    /\ ModernCall /\ ~ArgAllowMultiple
    /\ ArgRs = 18 /\ Len(ArgPayloadBytes) = 2 /\ ArgPad = 0
    /\ outcome.status = "threw" /\ outcome.error = PAYLOAD_TOO_LARGE

(* C2: delimiter law.  In a body of N >= 1 records, each of the records     *)
(* 1..N-1 opens to a plaintext that ends in the delimiter 1, and record N   *)
(* opens to data, the delimiter 2 and exactly finalRecordPadding zero       *)
(* bytes; so the terminal delimiter is carried by the last record only.     *)
C2_DelimiterLaw ==
    ModernBody =>
        /\ NumRecords >= 1
        /\ Sum([i \in 1..NumRecords |-> EmittedLen(i)]) = Len(BodyRecordStream)
        /\ \A i \in 1..NumRecords :
              LET o == OpenedRecord(i)
                  n == Len(o.pt)
              IN /\ o.ok
                 /\ IF i < NumRecords
                    THEN n >= 1 /\ o.pt[n] = 1
                    ELSE /\ n >= 1 + ArgPad
                         /\ o.pt[n - ArgPad] = 2
                         /\ \A j \in (n - ArgPad + 1)..n : o.pt[j] = 0
                         /\ SubSeq(o.pt, 1, n - ArgPad - 1)
                              = SubSeq(ArgPayloadBytes,
                                       Len(ArgPayloadBytes) - (n - ArgPad - 1) + 1,
                                       Len(ArgPayloadBytes))

\* a body of three records whose last record is padded
C2_Witness ==
    /\ ModernBody
    /\ NumRecords = 3
    /\ ArgPad = 2
    /\ OpenedRecord(1).ok /\ OpenedRecord(3).ok

(* C3: round trip.  Whenever the aes128gcm encoding of a non-empty payload  *)
(* succeeds, the receiver, who cuts the record stream every rs bytes as the *)
(* header tells it, opens the records in order under nonce base XOR record  *)
(* index, strips delimiters and padding and concatenates the data, recovers *)
(* exactly the payload.                                                     *)
C3_RoundTrip ==
    (ModernBody /\ ArgPayloadBytes # <<>>) =>
        (Decoded.ok /\ Decoded.data = ArgPayloadBytes)

\* the round trip where every record fits the record size
C3_RoundTripWithinRs ==
    (ModernBody /\ ArgPayloadBytes # <<>>
       /\ \A i \in 1..NumRecords : EmittedLen(i) <= ArgRs) =>
        (Decoded.ok /\ Decoded.data = ArgPayloadBytes)

\* a multi-record body that decodes to its three-byte payload
C3_Witness ==
    /\ ModernBody
    /\ NumRecords >= 2
    /\ Len(ArgPayloadBytes) = 3
    /\ Decoded.ok /\ Decoded.data = ArgPayloadBytes

(* C4: record i (0-based) is sealed under nonce base XOR big-endian-96(i):  *)
(* the counter is 0 for the first record and grows by one per record in     *)
(* output order, and no two records of a body share a nonce.                *)
C4_RecordNonces ==
    ModernBody =>
        /\ \A i \in 1..NumRecords :
              /\ outcome.log.records[i].seq = i - 1
              /\ outcome.log.records[i].nonce
                   = XorBytes(ReceiverKeys.nonceBase, BigEndian(i - 1, 12))
              /\ EmittedRecord(i) = Seal(ReceiverKeys.cek, outcome.log.records[i].nonce,
                                         outcome.log.records[i].plain)
        /\ \A i, j \in 1..NumRecords :
              i # j => outcome.log.records[i].nonce # outcome.log.records[j].nonce

\* a body of three records
C4_Witness ==
    /\ ModernBody
    /\ NumRecords = 3
    /\ outcome.log.records[3].seq = 2

(* C5: with allowMultipleRecords true every payload is accepted for every   *)
(* rs >= 18: it is cut in order into chunks of at most rs - 17 data bytes,  *)
(* every emitted record (chunk, delimiter, final-record padding, 16-byte    *)
(* tag) is at most rs bytes long, and a payload longer than rs - 17 bytes   *)
(* yields at least 2 records.                                              *)
C5_MultiRecord ==
    (ModernCall /\ ArgAllowMultiple) =>
        /\ outcome.status = "returned"
        /\ \A i \in 1..NumRecords :
              /\ EmittedLen(i) <= ArgRs
              /\ Len(outcome.log.records[i].plain)
                   - 1 - (IF i = NumRecords THEN ArgPad ELSE 0) <= ArgRs - 17
        /\ (Len(ArgPayloadBytes) > ArgRs - 17 => NumRecords >= 2)

(* C6: the body is an 86-byte header (16-byte salt, 4-byte big-endian rs    *)
(* equal to the rs option, the byte 65, a 65-byte key that starts with 4)   *)
(* followed by the records; its length is 86 + payload length + 17 * number *)
(* of records + finalRecordPadding, which is 108 for the default rs and a   *)
(* 5-byte payload.                                                          *)
C6_BodyLayout ==
    /\ ModernBody =>
         /\ Len(outcome.body) > 86
         /\ BodySalt = SaltBytes(call.env.rnd.salt)
         /\ BodyRs = ArgRs
         /\ BodyIdLen = 65
         /\ Len(BodyKeyId) = 65 /\ BodyKeyId[1] = 4
         /\ Len(outcome.body) = 86 + Len(ArgPayloadBytes) + 17 * NumRecords + ArgPad
    /\ (ModernCall /\ call.options.rs.t = "undefined" /\ Len(ArgPayloadBytes) = 5
          /\ ArgPad = 0) =>
         (outcome.status = "returned" /\ Len(outcome.body) = 108)

\* "hello" under the default rs: a body of 108 bytes
C6_Witness ==
    /\ ModernBody
    /\ call.options.rs.t = "undefined"
    /\ call.payload = StringPayload(Hello)
    /\ ArgPad = 0
    /\ Len(outcome.body) = 108

-----------------------------------------------------------------------------
(* What the properties on authentication read off a call *)

\* the VAPID details a generateRequest call is to sign with, if any
ArgVapidPresent == call.options.vapidDetails.t \in {"undefined", "obj"}
ArgVapidPublicKey ==
    IF call.options.vapidDetails.t = "obj" THEN call.options.vapidDetails.publicKey
    ELSE config.vapid.publicKey

\* the key of a generateRequest call: the per-call key before the configured
ArgGcmKey ==
    IF call.options.gcmAPIKey \notin {UNDEF, NULL} THEN call.options.gcmAPIKey
    ELSE config.gcm
ArgGcmKeyPresent == ArgGcmKey \notin {UNDEF, NULL, ""}

ArgIsGcm ==
    /\ Len(call.subscription.endpoint) >= 3
    /\ call.subscription.endpoint[1] = "https://"
    /\ call.subscription.endpoint[2] = "android.googleapis.com"
    /\ call.subscription.endpoint[3] = "/gcm/send"
ArgIsFcm ==
    \E i \in 1..Len(call.subscription.endpoint) :
        call.subscription.endpoint[i] = "fcm.googleapis.com"

\* the encoding and the public key of the signing a call asks for
SignEncoding ==
    IF call.op = "generateRequest" THEN ArgEncoding ELSE call.vapid.contentEncoding
SignPublicKey == IF call.op = "generateRequest" THEN ArgVapidPublicKey ELSE "PUB-direct"
SignExpirySeconds ==
    IF call.op = "GenerateHeaders" /\ call.vapid.expiration.t # "undefined"
    THEN call.vapid.expiration.v
    ELSE 43200

\* a token was signed and handed back
Signed == pc = "returned" /\ outcome.log.sign = 1

(* C7: the signed-token header values follow the content encoding: for      *)
(* aes128gcm, Authorization is 'vapid t=<token>, k=<publicKey>' and there   *)
(* is no Crypto-Key value; for aesgcm, Authorization is 'WebPush <token>'   *)
(* and the Crypto-Key value is 'p256ecdsa=<publicKey>'; and a request       *)
(* signed with VAPID carries exactly these.                                 *)
C7_VapidHeaderValues ==
    Signed =>
        LET v == outcome.log.vapid
        IN /\ v.token # ""
           /\ SignEncoding \in {"aes128gcm", "aesgcm"}
           /\ SignEncoding = "aes128gcm" =>
                /\ v.Authorization = "vapid t=" \o v.token \o ", k=" \o SignPublicKey
                /\ v.CryptoKey = NULL
           /\ SignEncoding = "aesgcm" =>
                /\ v.Authorization = "WebPush " \o v.token
                /\ v.CryptoKey = "p256ecdsa=" \o SignPublicKey
           /\ call.op = "generateRequest" =>
                /\ outcome.headers["Authorization"] = v.Authorization
                /\ SignEncoding = "aes128gcm" => "Crypto-Key" \notin DOMAIN outcome.headers
                /\ SignEncoding = "aesgcm" =>
                     outcome.headers["Crypto-Key"]
                       = IF ArgHasPayload
                         THEN "dh=" \o Base64Url(PointBytes(PublicOf(call.env.rnd.ephPriv)))
                              \o "; " \o "p256ecdsa=" \o SignPublicKey
                         ELSE "p256ecdsa=" \o SignPublicKey

\* a request in the legacy encoding, signed with the per-call VAPID details
C7_Witness ==
    /\ Signed
    /\ call.op = "generateRequest"
    /\ SignEncoding = "aesgcm"
    /\ ArgHasPayload
    /\ call.options.vapidDetails.t = "obj"
    /\ outcome.log.vapid.CryptoKey = "p256ecdsa=PUB-call"

C9_AuthSelection ==
    (IsGenerateRequest /\ pc = "returned") =>
        /\ ArgIsGcm =>
             /\ outcome.log.sign = 0
             /\ ArgGcmKeyPresent => outcome.headers["Authorization"] = "key=" \o ArgGcmKey
        /\ (~ArgIsGcm /\ ArgVapidPresent) =>
             /\ outcome.log.sign = 1
             /\ outcome.log.vapid.publicKey = ArgVapidPublicKey
             /\ outcome.headers["Authorization"] = outcome.log.vapid.Authorization
        /\ (~ArgIsGcm /\ ~ArgVapidPresent) =>
             /\ outcome.log.sign = 0
             /\ (ArgIsFcm /\ ArgGcmKeyPresent) =>
                  outcome.headers["Authorization"] = "key=" \o ArgGcmKey

\* a GCM endpoint, VAPID configured, the per-call key over the configured
C9_Witness ==
    /\ IsGenerateRequest /\ pc = "returned"
    /\ ArgIsGcm
    /\ call.options.vapidDetails.t = "obj"
    /\ call.options.gcmAPIKey = "call-key" /\ config.gcm = "config-key"
    /\ outcome.headers["Authorization"] = "key=call-key"
    /\ outcome.log.sign = 0

(* C10: fail fast.  A call returns a complete request or throws and returns *)
(* nothing; a missing endpoint, a non-finite or negative TTL, an            *)
(* unsupported encoding or urgency, a bad topic or an rs that is not an     *)
(* integer >= 18 is rejected before any encryption or signing; and no call  *)
(* changes the configuration of the instance.                               *)
C10_Outcome ==
    /\ (IsGenerateRequest /\ pc = "returned") =>
         /\ outcome.status = "returned" /\ outcome.error = ""
         /\ outcome.endpoint = Join(call.subscription.endpoint)
         /\ outcome.method = "POST"
         /\ {"TTL", "Urgency", "Content-Length"} \subseteq DOMAIN outcome.headers
         /\ outcome.hasBody = ArgHasPayload
    /\ pc = "threw" =>
         /\ outcome.status = "threw" /\ outcome.error # ""
         /\ outcome.endpoint = "" /\ outcome.method = ""
         /\ ~outcome.hasBody /\ outcome.body = <<>>
    /\ (IsGenerateRequest /\ ArgInvalid) =>
         /\ pc = "threw"
         /\ outcome.log.encrypt = 0 /\ outcome.log.sign = 0
    /\ (IsGenerateRequest /\ ~ArgInvalid /\ pc = "threw") =>
         \/ ~call.subscription.keys.present
         \/ outcome.log.encrypt = 1

C10_FailFast == [][config' = config /\ C10_Outcome']_vars

\* a call with a payload and a non-integer rs: thrown before encrypting
C10_Witness ==
    /\ IsGenerateRequest /\ pc = "threw"
    /\ ArgRsBad /\ ~ArgTtlBad /\ ~ArgTopicBad /\ call.subscription.endpoint # <<>>
    /\ ArgHasPayload
    /\ outcome.error = ERR_RS
    /\ outcome.log.encrypt = 0

\* the decimal digits of a natural number, as String(n) writes them
DigitChars == <<"0", "1", "2", "3", "4", "5", "6", "7", "8", "9">>

RECURSIVE Decimal(_)
Decimal(n) == IF n < 10 THEN DigitChars[n + 1] ELSE Decimal(n \div 10) \o DigitChars[(n % 10) + 1]

\* the payload argument is null, undefined or the empty string
ArgNoPayload ==
    \/ call.payload.t \in {"null", "undefined"}
    \/ call.payload.t = "string" /\ call.payload.data = <<>>

\* the returned headers hold the key exactly as the caller supplied it, or
\* not at all when the caller did not supply it
LeftToCaller(name) ==
    IF name \in DOMAIN call.options.headers
    THEN name \in DOMAIN outcome.headers
         /\ outcome.headers[name] = call.options.headers[name]
    ELSE name \notin DOMAIN outcome.headers

(* C13: in every request generateRequest returns, Content-Length is the     *)
(* decimal byte length of the request body, whatever Content-Length the     *)
(* caller put in options.headers.  With a null, undefined or empty-string   *)
(* payload there is no body, Content-Length is "0" and generateRequest      *)
(* sets neither Content-Encoding nor Content-Type; with a payload the body  *)
(* is the encrypted one, Content-Encoding is the chosen encoding and        *)
(* Content-Type is application/octet-stream.                                *)
C13_ContentLength ==
    (IsGenerateRequest /\ outcome.status = "returned") =>
        /\ "Content-Length" \in DOMAIN outcome.headers
        /\ outcome.headers["Content-Length"] = Decimal(Len(outcome.body))
        /\ ArgNoPayload =>
             /\ ~outcome.hasBody /\ outcome.body = <<>>
             /\ outcome.headers["Content-Length"] = "0"
             /\ outcome.log.encrypt = 0
             /\ LeftToCaller("Content-Encoding")
             /\ LeftToCaller("Content-Type")
        /\ ~ArgNoPayload =>
             /\ outcome.hasBody /\ Len(outcome.body) >= TAG_LEN
             /\ outcome.log.encrypt = 1
             /\ outcome.headers["Content-Encoding"] = ArgEncoding
             /\ outcome.headers["Content-Type"] = "application/octet-stream"

\* a payload, and a caller whose own Content-Length, Content-Type and
\* Content-Encoding are all replaced
C13_Witness ==
    /\ IsGenerateRequest /\ outcome.status = "returned"
    /\ ~ArgNoPayload
    /\ call.options.headers = CallerContentHeaders
    /\ outcome.headers["Content-Length"] # "7"
    /\ outcome.headers["Content-Length"] = Decimal(Len(outcome.body))
    /\ Len(outcome.body) > 9

\* no payload, and a caller whose Content-Length is replaced by "0" while
\* its Content-Type and Content-Encoding stay
C13_WitnessNoBody ==
    /\ IsGenerateRequest /\ outcome.status = "returned"
    /\ ArgNoPayload
    /\ call.options.headers = CallerContentHeaders
    /\ outcome.headers["Content-Length"] = "0"
    /\ outcome.headers["Content-Type"] = "text/plain"

IsNotify == pc # "idle" /\ call.op = "notify"

\* the response the fetch resolved to is a 2xx one
ResponseOk ==
    /\ fetchPromise.state = "fulfilled"
    /\ fetchPromise.value.status \in 200..299

\* the one fetch of a notify call is the request generateRequest built for
\* the arguments of the call
FetchedTheRequest ==
    /\ Len(fetches) = 1
    /\ outcome.status = "returned"
    /\ fetches[1].endpoint = Join(call.subscription.endpoint)
    /\ fetches[1].method = "POST"
    /\ fetches[1].headers = outcome.headers
    /\ fetches[1].hasBody = ArgHasPayload
    /\ fetches[1].body = outcome.body

\* what holds of a notify call at each point it can be at
C12_NotifyState ==
    IsNotify =>
        /\ pc \in {"awaiting", "fulfilled", "rejected"}
        /\ outcome.status = "threw" =>
             /\ fetches = <<>> /\ fetchPromise = NoPromise
             /\ pc = "rejected" /\ promise.state = "rejected"
             /\ promise.error.name = "Error"
             /\ promise.error.message = outcome.error
        /\ outcome.status = "returned" => FetchedTheRequest
        /\ pc = "awaiting" => promise.state = "pending" /\ fetchPromise.state = "pending"
        /\ pc = "fulfilled" =>
             /\ ResponseOk
             /\ promise.state = "fulfilled" /\ promise.value = fetchPromise.value
        /\ (pc = "rejected" /\ fetchPromise.state = "fulfilled") =>
             /\ ~ResponseOk
             /\ promise.state = "rejected"
             /\ promise.error.name = "WebPushError"
             /\ promise.error.response = fetchPromise.value
        /\ fetchPromise.state = "fulfilled" =>
             pc = (IF ResponseOk THEN "fulfilled" ELSE "rejected")

(* C12: notify builds the request first and then performs exactly one fetch *)
(* of it, with no retry.  It resolves with the response when the response   *)
(* is ok (2xx), rejects with a WebPushError that carries the response when  *)
(* it is not, and performs no fetch at all when generateRequest throws.     *)
(* A fetch is made only by the step that starts notify, and no step of a    *)
(* call that is under way makes another.                                    *)
C12_NotifyOnce ==
    [][/\ C12_NotifyState'
       /\ fetches' # fetches =>
            \/ pc = "idle" /\ pc' = "awaiting" /\ Len(fetches') = 1
            \/ pc' = "idle" /\ fetches' = <<>>
       /\ pc \in {"fulfilled", "rejected"} => pc' = "idle"]_vars

\* a 404 answer: one fetch, and a WebPushError that carries the response
C12_Witness ==
    /\ IsNotify /\ pc = "rejected"
    /\ ArgHasPayload
    /\ Len(fetches) = 1 /\ fetches[1].hasBody
    /\ fetchPromise.state = "fulfilled" /\ fetchPromise.value.status = 404
    /\ promise.error.name = "WebPushError"
    /\ promise.error.response.status = 404

\* a 201 answer: notify resolves with it
C12_WitnessOk ==
    /\ IsNotify /\ pc = "fulfilled"
    /\ Len(fetches) = 1
    /\ promise.value.status = 201

\* a payload without subscription keys: generateRequest throws, no fetch
C12_WitnessNoFetch ==
    /\ IsNotify /\ pc = "rejected"
    /\ ArgHasPayload /\ ~call.subscription.keys.present /\ ~ArgInvalid
    /\ fetches = <<>>
    /\ promise.error.message = ERR_KEYS

\* an encryption call has returned and the call before it was an encryption
\* call with the same payload, subscriber keys and options
SameEncryptionAgain ==
    /\ pc = "returned"
    /\ call.op \in EncryptionOps
    /\ previous.call.op = call.op
    /\ previous.call.payload = call.payload
    /\ previous.call.subscription = call.subscription
    /\ previous.call.options = call.options
    /\ previous.outcome.status = "returned"

BothSupplied(c) == c.supplied.salt.t = "int" /\ c.supplied.ephPriv.t = "int"
NoneSupplied(c) == c.supplied.salt.t = "undefined" /\ c.supplied.ephPriv.t = "undefined"

C11_WitnessFresh ==
    /\ SameEncryptionAgain
    /\ call.op = "encryptAes128GcmBody"
    /\ NoneSupplied(call) /\ NoneSupplied(previous.call)
    /\ entropy = 2
    /\ outcome.body # previous.outcome.body
    /\ Len(outcome.body) = Len(previous.outcome.body)

====
